---- MODULE Spec2Model ----
(***************************************************************************)
(* Room inventory availability and booking lifecycle of the hotel backend  *)
(* (backend/app/routes/bookings.py, backend/app/models).                   *)
(*                                                                         *)
(* The store is the database: the bookings, rooms, users and housekeeping  *)
(* tasks tables.  Every route handler is one action; a request carries all *)
(* required fields, parsable dates and, where the route asks for one, a    *)
(* valid token.  Dates are day numbers, money is counted in thousandths of *)
(* the currency unit (so that half of an amount with two decimals is       *)
(* exact), NULL is 0 for ids and dates, -1 for money and "NULL" for text.  *)
(*                                                                         *)
(* Spec      one booking through every route, requests served one by one   *)
(* PairSpec  the same with bookings contending for the rooms of a hotel    *)
(* AvailSpec the search beside the routes, bookings of any dates and hotel *)
(* ConcSpec  check-in requests whose database statements interleave        *)
(* PolicySpec bookings cancelled before, on and after their check-in date  *)
(* DemandSpec the search beside bookings that outnumber the rooms of a type *)
(* RangeSpec searches of any range, valid or not, on any day                *)
(* RaceSpec  a cancellation and a check-in of one booking that interleave   *)
(***************************************************************************)
EXTENDS Integers, Sequences, FiniteSets, TLC

\* ------------------------------------------------------------- bounds
MaxBookings == 1
MaxContending == 2
MaxSearched == 1
MaxDay == 3
MaxTasks == 1
MaxGuests == 2
NumSessions == 2

Dates == 1..MaxDay
GuestCounts == 1..MaxGuests
Sessions == 1..NumSessions
Amounts == {100010}
Emails == {"guest@example.com"}
Reasons == {"NULL", "changed plans"}

\* ------------------------------------------------------------- tables
\* BookingStatus and RoomStatus enums
BookingStatus == {"PENDING", "CONFIRMED", "CHECKED_IN", "CHECKED_OUT", "CANCELLED"}
RoomStatus == {"OCCUPIED", "VACANT_DIRTY", "CLEAN_READY", "OUT_OF_ORDER", "INSPECTED"}

HotelIds == {1, 2}

\* room_types rows: the catalogue is not written by any booking route
RoomTypeIds == 1..4
RoomType ==
  [t \in RoomTypeIds |->
     CASE t = 1 -> [hotel_id |-> 1, max_occupancy |-> 2, is_deleted |-> FALSE]
       [] t = 2 -> [hotel_id |-> 1, max_occupancy |-> 1, is_deleted |-> FALSE]
       [] t = 3 -> [hotel_id |-> 1, max_occupancy |-> 2, is_deleted |-> TRUE]
       [] t = 4 -> [hotel_id |-> 2, max_occupancy |-> 2, is_deleted |-> FALSE]]

\* rooms rows, the columns no booking route writes; room_number is unique per hotel
RoomIds == 1..7
Room ==
  [r \in RoomIds |->
     CASE r = 1 -> [hotel_id |-> 1, room_type_id |-> 1, room_number |-> 102, is_deleted |-> FALSE]
       [] r = 2 -> [hotel_id |-> 1, room_type_id |-> 1, room_number |-> 101, is_deleted |-> FALSE]
       [] r = 3 -> [hotel_id |-> 1, room_type_id |-> 1, room_number |-> 103, is_deleted |-> FALSE]
       [] r = 4 -> [hotel_id |-> 1, room_type_id |-> 1, room_number |-> 104, is_deleted |-> TRUE]
       [] r = 5 -> [hotel_id |-> 2, room_type_id |-> 4, room_number |-> 101, is_deleted |-> FALSE]
       [] r = 6 -> [hotel_id |-> 1, room_type_id |-> 2, room_number |-> 201, is_deleted |-> FALSE]
       [] r = 7 -> [hotel_id |-> 1, room_type_id |-> 3, room_number |-> 301, is_deleted |-> FALSE]]

\* rooms.status as the property was set up: room 3 is out of order
InitialRoomStatus ==
  [r \in RoomIds |-> IF r = 3 THEN "OUT_OF_ORDER" ELSE "CLEAN_READY"]

\* ------------------------------------------------------------- state
VARIABLES
  bookings,   \* bookings table: row i has primary key i
  rooms,      \* rooms.status by room id
  users,      \* users table: the guests' e-mail addresses, row i has primary key i
  tasks,      \* housekeeping_tasks table
  today,      \* datetime.utcnow(), in days
  response,   \* the last HTTP response
  sessions    \* the database session of each request being served step by step

vars == <<bookings, rooms, users, tasks, today, response, sessions>>

NULL == 0
NoRefund == -1
NoBody == [json |-> "null"]

Idle == [pc |-> "idle"]

Init ==
  /\ bookings = <<>>
  /\ rooms = InitialRoomStatus
  /\ users = <<>>
  /\ tasks = <<>>
  /\ today = 1
  /\ response = [code |-> 0, msg |-> "none", body |-> {}]
  /\ sessions = [s \in Sessions |-> Idle]

Reply(code, msg, body) == [code |-> code, msg |-> msg, body |-> body]

\* Booking.query.get(booking_id)
Exists(id) == id \in 1..Len(bookings)

Active == {"CONFIRMED", "CHECKED_IN"}

\* ------------------------------------------------------------- search
\* the date filter of the booked-rooms query
OverlapFilter(bk, check_in, check_out) ==
  \/ (bk.check_in_date <= check_in /\ bk.check_out_date > check_in)
  \/ (bk.check_in_date < check_out /\ bk.check_out_date >= check_out)
  \/ (bk.check_in_date >= check_in /\ bk.check_out_date <= check_out)

\* total_rooms: rooms of the type in the hotel, not deleted, not out of order
TotalRooms(hotel_id, t) ==
  Cardinality({r \in RoomIds :
     /\ Room[r].hotel_id = hotel_id
     /\ Room[r].room_type_id = t
     /\ Room[r].is_deleted = FALSE
     /\ rooms[r] # "OUT_OF_ORDER"})

\* booked_rooms: confirmed or checked-in bookings of the type passing the date filter
BookedRooms(hotel_id, t, check_in, check_out) ==
  Cardinality({i \in 1..Len(bookings) :
     /\ bookings[i].room_type_id = t
     /\ bookings[i].hotel_id = hotel_id
     /\ bookings[i].status \in {"CONFIRMED", "CHECKED_IN"}
     /\ OverlapFilter(bookings[i], check_in, check_out)})

\* available = total_rooms - booked_rooms
Available(hotel_id, t, check_in, check_out) ==
  TotalRooms(hotel_id, t) - BookedRooms(hotel_id, t, check_in, check_out)

\* the room types the search loops over
SearchedTypes(hotel_id, num_guests) ==
  {t \in RoomTypeIds :
     /\ RoomType[t].hotel_id = hotel_id
     /\ RoomType[t].is_deleted = FALSE
     /\ RoomType[t].max_occupancy >= num_guests}

\* the search appending every room type it loops over, whatever its availability
AvailableTypes_Unfiltered(hotel_id, check_in, check_out, num_guests) ==
  {[room_type_id |-> t,
    available_rooms |-> Available(hotel_id, t, check_in, check_out),
    num_nights |-> check_out - check_in] :
     t \in SearchedTypes(hotel_id, num_guests)}

\* available_room_types of the response
AvailableTypes(hotel_id, check_in, check_out, num_guests) ==
  {[room_type_id |-> t,
    available_rooms |-> Available(hotel_id, t, check_in, check_out),
    num_nights |-> check_out - check_in] :
     t \in {u \in SearchedTypes(hotel_id, num_guests) :
               Available(hotel_id, u, check_in, check_out) > 0}}

\* the search without the test against the current date
SearchAvailability_AnyStart(hotel_id, check_in, check_out, num_guests) ==
  /\ response' =
       IF check_in >= check_out
         THEN Reply(400, "Check-out must be after check-in", {})
       ELSE Reply(200, "search", AvailableTypes(hotel_id, check_in, check_out, num_guests))
  /\ UNCHANGED <<bookings, rooms, users, tasks, today, sessions>>

\* POST /search
SearchAvailability(hotel_id, check_in, check_out, num_guests) ==
  /\ response' =
       IF check_in >= check_out
         THEN Reply(400, "Check-out must be after check-in", {})
       ELSE IF check_in < today
         THEN Reply(400, "Check-in date cannot be in the past", {})
       ELSE Reply(200, "search", AvailableTypes(hotel_id, check_in, check_out, num_guests))
  /\ UNCHANGED <<bookings, rooms, users, tasks, today, sessions>>

\* ------------------------------------------------------------- create
\* a booking that is born confirmed
NewBooking_Confirmed(data, guest_id) ==
  [booking_number |-> data.booking_number,
   hotel_id |-> data.hotel_id,
   guest_id |-> guest_id,
   room_id |-> NULL,
   room_type_id |-> data.room_type_id,
   check_in_date |-> data.check_in_date,
   check_out_date |-> data.check_out_date,
   actual_check_in |-> NULL,
   actual_check_out |-> NULL,
   num_guests |-> data.num_guests,
   total_amount |-> data.total_amount,
   status |-> "CONFIRMED",
   cancellation_reason |-> "NULL",
   cancelled_at |-> NULL,
   refund_amount |-> NoRefund]

\* the row Booking(...) builds: status PENDING, no room, no cancellation data
NewBooking(data, guest_id) ==
  [booking_number |-> data.booking_number,
   hotel_id |-> data.hotel_id,
   guest_id |-> guest_id,
   room_id |-> NULL,
   room_type_id |-> data.room_type_id,
   check_in_date |-> data.check_in_date,
   check_out_date |-> data.check_out_date,
   actual_check_in |-> NULL,
   actual_check_out |-> NULL,
   num_guests |-> data.num_guests,
   total_amount |-> data.total_amount,
   status |-> "PENDING",
   cancellation_reason |-> "NULL",
   cancelled_at |-> NULL,
   refund_amount |-> NoRefund]

\* User.query.filter_by(email=...).first(): the id of the guest, NULL when there is none
GuestId(email) ==
  IF \E u \in 1..Len(users) : users[u] = email
    THEN CHOOSE u \in 1..Len(users) : users[u] = email
    ELSE NULL

\* the unique index on bookings.booking_number
NumberTaken(n) == \E i \in 1..Len(bookings) : bookings[i].booking_number = n

\* POST /
CreateBooking(data) ==
  /\ IF NumberTaken(data.booking_number)
       THEN \* the commit violates the unique index: rollback, the flushed guest included
            /\ response' = Reply(500, "IntegrityError", {})
            /\ UNCHANGED <<bookings, users>>
       ELSE /\ users' = IF GuestId(data.guest_email) = NULL
                           THEN Append(users, data.guest_email) ELSE users
            /\ bookings' = Append(bookings,
                   NewBooking(data, IF GuestId(data.guest_email) = NULL
                                      THEN Len(users) + 1
                                      ELSE GuestId(data.guest_email)))
            /\ response' = Reply(201, "Booking created successfully", {})
  /\ UNCHANGED <<rooms, tasks, today, sessions>>

\* ------------------------------------------------------------- confirm
\* confirm_booking answering 200 for an id no booking has
ConfirmBooking_SilentMiss(id) ==
  /\ IF ~Exists(id)
       THEN /\ response' = Reply(200, "Booking confirmed", {})
            /\ UNCHANGED bookings
       ELSE /\ bookings' = [bookings EXCEPT ![id].status = "CONFIRMED"]
            /\ response' = Reply(200, "Booking confirmed", {})
  /\ UNCHANGED <<rooms, users, tasks, today, sessions>>

\* POST /<booking_id>/confirm
ConfirmBooking(id) ==
  /\ IF ~Exists(id)
       THEN /\ response' = Reply(404, "Booking not found", {})
            /\ UNCHANGED bookings
       ELSE /\ bookings' = [bookings EXCEPT ![id].status = "CONFIRMED"]
            /\ response' = Reply(200, "Booking confirmed", {})
  /\ UNCHANGED <<rooms, users, tasks, today, sessions>>

\* ------------------------------------------------------------- cancel
\* the policy charging in full from the day of arrival on
calculate_cancellation_charge_FullOnArrival(bk) ==
  LET days_until_checkin == bk.check_in_date - today
  IN  IF days_until_checkin >= 2 THEN 0
      ELSE IF days_until_checkin > 0 THEN (bk.total_amount * 5) \div 10
      ELSE bk.total_amount

\* Booking.calculate_cancellation_charge, in thousandths
calculate_cancellation_charge(bk) ==
  LET days_until_checkin == bk.check_in_date - today
  IN  IF days_until_checkin >= 2 THEN 0
      ELSE IF days_until_checkin >= 0 THEN (bk.total_amount * 5) \div 10
      ELSE bk.total_amount

\* a value written to a Numeric(10, 2) column: rounded to two decimals, half up
Numeric2(amount) == ((amount + 5) \div 10) * 10

CancelBodies == {NoBody} \cup [reason : Reasons]

\* cancel_booking marking the booking's room dirty as a check-out would
CancelBooking_ReleasesRoom(id, data) ==
  /\ IF ~Exists(id)
       THEN /\ response' = Reply(404, "Booking not found", {})
            /\ UNCHANGED <<bookings, rooms>>
       ELSE IF bookings[id].status = "CANCELLED"
       THEN /\ response' = Reply(400, "Booking already cancelled", {})
            /\ UNCHANGED <<bookings, rooms>>
       ELSE IF data = NoBody
       THEN /\ response' = Reply(500, "AttributeError", {})
            /\ UNCHANGED <<bookings, rooms>>
       ELSE LET charge == calculate_cancellation_charge(bookings[id])
                refund == bookings[id].total_amount - charge
            IN  /\ bookings' = [bookings EXCEPT
                      ![id].status = "CANCELLED",
                      ![id].cancelled_at = today,
                      ![id].cancellation_reason = data.reason,
                      ![id].refund_amount = Numeric2(refund)]
                /\ rooms' = IF bookings[id].room_id \in RoomIds
                              THEN [rooms EXCEPT ![bookings[id].room_id] = "VACANT_DIRTY"]
                              ELSE rooms
                /\ response' = Reply(200, "Booking cancelled",
                      {[cancellation_charge |-> charge, refund_amount |-> refund]})
  /\ UNCHANGED <<users, tasks, today, sessions>>

\* cancel_booking without the "already cancelled" test
CancelBooking_NoCancelledTest(id, data) ==
  /\ IF ~Exists(id)
       THEN /\ response' = Reply(404, "Booking not found", {})
            /\ UNCHANGED bookings
       ELSE IF data = NoBody
       THEN /\ response' = Reply(500, "AttributeError", {})
            /\ UNCHANGED bookings
       ELSE LET charge == calculate_cancellation_charge(bookings[id])
                refund == bookings[id].total_amount - charge
            IN  /\ bookings' = [bookings EXCEPT
                      ![id].status = "CANCELLED",
                      ![id].cancelled_at = today,
                      ![id].cancellation_reason = data.reason,
                      ![id].refund_amount = Numeric2(refund)]
                /\ response' = Reply(200, "Booking cancelled",
                      {[cancellation_charge |-> charge, refund_amount |-> refund]})
  /\ UNCHANGED <<rooms, users, tasks, today, sessions>>

\* POST /<booking_id>/cancel
CancelBooking(id, data) ==
  /\ IF ~Exists(id)
       THEN /\ response' = Reply(404, "Booking not found", {})
            /\ UNCHANGED bookings
       ELSE IF bookings[id].status = "CANCELLED"
       THEN /\ response' = Reply(400, "Booking already cancelled", {})
            /\ UNCHANGED bookings
       ELSE IF data = NoBody
       THEN \* data.get on None raises: rollback
            /\ response' = Reply(500, "AttributeError", {})
            /\ UNCHANGED bookings
       ELSE LET charge == calculate_cancellation_charge(bookings[id])
                refund == bookings[id].total_amount - charge
            IN  /\ bookings' = [bookings EXCEPT
                      ![id].status = "CANCELLED",
                      ![id].cancelled_at = today,
                      ![id].cancellation_reason = data.reason,
                      ![id].refund_amount = Numeric2(refund)]
                /\ response' = Reply(200, "Booking cancelled",
                      {[cancellation_charge |-> charge, refund_amount |-> refund]})
  /\ UNCHANGED <<rooms, users, tasks, today, sessions>>

\* ------------------------------------------------------------- check-in
\* a room id no row of rooms has
MissingRoomId == CHOOSE n \in 1..(Cardinality(RoomIds) + 1) : n \notin RoomIds
RequestedRoomIds == {NULL, 1, MissingRoomId}
CheckInBodies == {NoBody} \cup [room_id : RequestedRoomIds]

\* the rows the auto-assign query matches; it has no ORDER BY, so first() may
\* return any of them
CleanRooms(bk) ==
  {r \in RoomIds :
     /\ Room[r].hotel_id = bk.hotel_id
     /\ Room[r].room_type_id = bk.room_type_id
     /\ rooms[r] = "CLEAN_READY"
     /\ Room[r].is_deleted = FALSE}

\* the values "Assign room if not already assigned" can leave in booking.room_id
AssignedRooms(bk, data) ==
  IF bk.room_id # NULL THEN {bk.room_id}
  ELSE IF data.room_id # NULL THEN {data.room_id}
  ELSE CleanRooms(bk)

\* "Update booking", "Update room status" and the commit
CheckInCommit(id, room_id) ==
  /\ bookings' = [bookings EXCEPT
        ![id].room_id = room_id,
        ![id].status = "CHECKED_IN",
        ![id].actual_check_in = today]
  /\ rooms' = [rooms EXCEPT ![room_id] = "OCCUPIED"]

\* check_in whose failure leaves the booking's writes in place
CheckIn_NoRollback(id, data) ==
  /\ IF ~Exists(id)
       THEN /\ response' = Reply(404, "Booking not found", {})
            /\ UNCHANGED <<bookings, rooms>>
       ELSE IF bookings[id].status # "CONFIRMED"
       THEN /\ response' = Reply(400, "Booking must be confirmed before check-in", {})
            /\ UNCHANGED <<bookings, rooms>>
       ELSE IF bookings[id].room_id = NULL /\ data = NoBody
       THEN /\ response' = Reply(500, "AttributeError", {})
            /\ UNCHANGED <<bookings, rooms>>
       ELSE IF AssignedRooms(bookings[id], data) = {}
       THEN /\ response' = Reply(400, "No clean rooms available", {})
            /\ UNCHANGED <<bookings, rooms>>
       ELSE \E room_id \in AssignedRooms(bookings[id], data) :
              IF room_id \notin RoomIds
                THEN /\ response' = Reply(500, "no such room", {})
                     /\ bookings' = [bookings EXCEPT
                           ![id].room_id = room_id,
                           ![id].status = "CHECKED_IN",
                           ![id].actual_check_in = today]
                     /\ UNCHANGED rooms
                ELSE /\ CheckInCommit(id, room_id)
                     /\ response' = Reply(200, "Check-in successful", {})
  /\ UNCHANGED <<users, tasks, today, sessions>>

\* check_in testing for "not cancelled" instead of "confirmed"
CheckIn_NotCancelledTest(id, data) ==
  /\ IF ~Exists(id)
       THEN /\ response' = Reply(404, "Booking not found", {})
            /\ UNCHANGED <<bookings, rooms>>
       ELSE IF bookings[id].status = "CANCELLED"
       THEN /\ response' = Reply(400, "Booking must be confirmed before check-in", {})
            /\ UNCHANGED <<bookings, rooms>>
       ELSE IF bookings[id].room_id = NULL /\ data = NoBody
       THEN /\ response' = Reply(500, "AttributeError", {})
            /\ UNCHANGED <<bookings, rooms>>
       ELSE IF AssignedRooms(bookings[id], data) = {}
       THEN /\ response' = Reply(400, "No clean rooms available", {})
            /\ UNCHANGED <<bookings, rooms>>
       ELSE \E room_id \in AssignedRooms(bookings[id], data) :
              IF room_id \notin RoomIds
                THEN /\ response' = Reply(500, "no such room", {})
                     /\ UNCHANGED <<bookings, rooms>>
                ELSE /\ CheckInCommit(id, room_id)
                     /\ response' = Reply(200, "Check-in successful", {})
  /\ UNCHANGED <<users, tasks, today, sessions>>

\* POST /<booking_id>/checkin
CheckIn(id, data) ==
  /\ IF ~Exists(id)
       THEN /\ response' = Reply(404, "Booking not found", {})
            /\ UNCHANGED <<bookings, rooms>>
       ELSE IF bookings[id].status # "CONFIRMED"
       THEN /\ response' = Reply(400, "Booking must be confirmed before check-in", {})
            /\ UNCHANGED <<bookings, rooms>>
       ELSE IF bookings[id].room_id = NULL /\ data = NoBody
       THEN \* data.get on None raises: rollback
            /\ response' = Reply(500, "AttributeError", {})
            /\ UNCHANGED <<bookings, rooms>>
       ELSE IF AssignedRooms(bookings[id], data) = {}
       THEN /\ response' = Reply(400, "No clean rooms available", {})
            /\ UNCHANGED <<bookings, rooms>>
       ELSE \E room_id \in AssignedRooms(bookings[id], data) :
              IF room_id \notin RoomIds
                THEN \* no such room: the flush or room.status raises, rollback
                     /\ response' = Reply(500, "no such room", {})
                     /\ UNCHANGED <<bookings, rooms>>
                ELSE /\ CheckInCommit(id, room_id)
                     /\ response' = Reply(200, "Check-in successful", {})
  /\ UNCHANGED <<users, tasks, today, sessions>>

\* ------------------------------------------------------------- check-out
\* a task asking for an inspection instead of a cleaning
NewTask_Inspection(room_id) ==
  [room_id |-> room_id, task_type |-> "inspection", priority |-> "normal", status |-> "pending"]

\* HousekeepingTask(room_id, task_type='cleaning', priority='normal', status='pending')
NewTask(room_id) ==
  [room_id |-> room_id, task_type |-> "cleaning", priority |-> "normal", status |-> "pending"]

\* check_out accepting a confirmed booking as well as a checked-in one
CheckOut_ConfirmedToo(id) ==
  /\ IF ~Exists(id)
       THEN /\ response' = Reply(404, "Booking not found", {})
            /\ UNCHANGED <<bookings, rooms, tasks>>
       ELSE IF bookings[id].status \notin {"CHECKED_IN", "CONFIRMED"}
       THEN /\ response' = Reply(400, "Guest is not checked in", {})
            /\ UNCHANGED <<bookings, rooms, tasks>>
       ELSE /\ bookings' = [bookings EXCEPT
                  ![id].status = "CHECKED_OUT",
                  ![id].actual_check_out = today]
            /\ IF bookings[id].room_id # NULL
                 THEN /\ Len(tasks) < MaxTasks
                      /\ rooms' = [rooms EXCEPT ![bookings[id].room_id] = "VACANT_DIRTY"]
                      /\ tasks' = Append(tasks, NewTask(bookings[id].room_id))
                 ELSE UNCHANGED <<rooms, tasks>>
            /\ response' = Reply(200, "Check-out successful", {})
  /\ UNCHANGED <<users, today, sessions>>

\* POST /<booking_id>/checkout
CheckOut(id) ==
  /\ IF ~Exists(id)
       THEN /\ response' = Reply(404, "Booking not found", {})
            /\ UNCHANGED <<bookings, rooms, tasks>>
       ELSE IF bookings[id].status # "CHECKED_IN"
       THEN /\ response' = Reply(400, "Guest is not checked in", {})
            /\ UNCHANGED <<bookings, rooms, tasks>>
       ELSE /\ bookings' = [bookings EXCEPT
                  ![id].status = "CHECKED_OUT",
                  ![id].actual_check_out = today]
            /\ IF bookings[id].room_id # NULL
                 THEN /\ Len(tasks) < MaxTasks
                      /\ rooms' = [rooms EXCEPT ![bookings[id].room_id] = "VACANT_DIRTY"]
                      /\ tasks' = Append(tasks, NewTask(bookings[id].room_id))
                 ELSE UNCHANGED <<rooms, tasks>>
            /\ response' = Reply(200, "Check-out successful", {})
  /\ UNCHANGED <<users, today, sessions>>

\* ------------------------------------------------------------- requests served one at a time
\* the booking ids a client may name when the table holds at most limit rows:
\* the last one is never a row's
BookingIds(limit) == 1..(limit + 1)

\* the booking routes, with the request bodies drawn from the given sets
Routes(limit, creates, cancels, checkins) ==
  \/ \E data \in creates : Len(bookings) < limit /\ CreateBooking(data)
  \/ \E id \in BookingIds(limit) : ConfirmBooking(id)
  \/ \E id \in BookingIds(limit), data \in cancels : CancelBooking(id, data)
  \/ \E id \in BookingIds(limit), data \in checkins : CheckIn(id, data)
  \/ \E id \in BookingIds(limit) : CheckOut(id)

\* bookings of the two room types of hotel 1 for the night of day 1, with as
\* many booking numbers to draw from as there may be bookings
LifecycleRequests(limit) ==
  [hotel_id : {1}, room_type_id : {1, 2}, check_in_date : {1},
   check_out_date : {2}, num_guests : {1}, guest_email : Emails,
   total_amount : Amounts, booking_number : 1..limit]

\* one booking through its life
Next == Routes(MaxBookings, LifecycleRequests(MaxBookings), CancelBodies, CheckInBodies)

Spec == Init /\ [][Next]_vars

\* bookings contending for the rooms of hotel 1
PairNext == Routes(MaxContending, LifecycleRequests(MaxContending), CancelBodies, CheckInBodies)

PairSpec == Init /\ [][PairNext]_vars

\* ------------------------------------------------------------- search and booking
\* bookings of either hotel with any pair of dates, a stay of no night included
SearchedRequests ==
  [hotel_id : HotelIds, room_type_id : {1, 4}, check_in_date : Dates,
   check_out_date : Dates, num_guests : GuestCounts, guest_email : Emails,
   total_amount : Amounts, booking_number : 1..MaxSearched]

\* the clock may stand at any day when the first request arrives
AvailInit ==
  /\ bookings = <<>>
  /\ rooms = InitialRoomStatus
  /\ users = <<>>
  /\ tasks = <<>>
  /\ today \in Dates
  /\ response = [code |-> 0, msg |-> "none", body |-> {}]
  /\ sessions = [s \in Sessions |-> Idle]

AvailNext ==
  \/ \E hotel_id \in HotelIds, check_in \in Dates, check_out \in Dates, num_guests \in GuestCounts :
        SearchAvailability(hotel_id, check_in, check_out, num_guests)
  \/ Routes(MaxSearched, SearchedRequests, {[reason |-> "NULL"]}, {[room_id |-> NULL]})

AvailSpec == AvailInit /\ [][AvailNext]_vars

\* ------------------------------------------------------------- cancellation policy
\* total_amount values: an odd and an even number of cents
PolicyAmounts == Amounts \cup {25000}

\* bookings of room type 2 (one guest at most) for parties of any size, arriving
\* on any day, before today included, and leaving after the last of them
PolicyRequests ==
  [hotel_id : {1}, room_type_id : {2}, check_in_date : Dates,
   check_out_date : {MaxDay + 1}, num_guests : GuestCounts, guest_email : Emails,
   total_amount : PolicyAmounts, booking_number : 1..MaxBookings]

\* bookings made, confirmed and cancelled; the charge reads nothing a check-in
\* or a check-out writes
PolicyNext ==
  \/ \E data \in PolicyRequests : Len(bookings) < MaxBookings /\ CreateBooking(data)
  \/ \E id \in BookingIds(MaxBookings) : ConfirmBooking(id)
  \/ \E id \in BookingIds(MaxBookings) : CancelBooking(id, [reason |-> "NULL"])

\* the clock stands at any day: a booking is cancelled days before, on, or
\* after its check-in date
PolicySpec == AvailInit /\ [][PolicyNext]_vars

\* ------------------------------------------------------------- search ranges
\* bookings of either hotel, of room type 1 or 4, for the night of the last day
RangeRequests ==
  [hotel_id : HotelIds, room_type_id : {1, 4}, check_in_date : {MaxDay},
   check_out_date : {MaxDay + 1}, num_guests : {1}, guest_email : Emails,
   total_amount : Amounts, booking_number : 1..MaxSearched]

\* searches of any hotel, pair of dates and party, beside bookings made and confirmed
RangeNext ==
  \/ \E hotel_id \in HotelIds, check_in \in Dates, check_out \in Dates, num_guests \in GuestCounts :
        SearchAvailability(hotel_id, check_in, check_out, num_guests)
  \/ \E data \in RangeRequests : Len(bookings) < MaxSearched /\ CreateBooking(data)
  \/ \E id \in BookingIds(MaxSearched) : ConfirmBooking(id)

\* the clock stands at any day: a search may start before it
RangeSpec == AvailInit /\ [][RangeNext]_vars

\* ------------------------------------------------------------- demand beyond supply
\* bookings of room type 2 of hotel 1, which has a single room, for the night of day 1
DemandRequests ==
  [hotel_id : {1}, room_type_id : {2}, check_in_date : {1},
   check_out_date : {2}, num_guests : {1}, guest_email : Emails,
   total_amount : Amounts, booking_number : 1..MaxContending]

\* searches of hotel 1 for one guest from day 1 on, among them the night the
\* bookings are for
DemandNext ==
  \/ \E check_out \in Dates : SearchAvailability(1, 1, check_out, 1)
  \/ Routes(MaxContending, DemandRequests, {[reason |-> "NULL"]}, {[room_id |-> NULL]})

DemandSpec == Init /\ [][DemandNext]_vars

\* ------------------------------------------------------------- overlapping check-ins
\* Each request runs in its own database session.  check_in reads the booking,
\* then queries the rooms, then writes and commits; between these statements
\* another request may read and commit.  A session's writes reach the tables
\* at its commit, as UPDATEs of the columns it changed.
Done(reply) == [pc |-> "done", reply |-> reply]

\* booking = Booking.query.get(booking_id) and the two tests that follow
CheckInLoad(s, id, data) ==
  /\ sessions[s].pc \in {"idle", "done"}
  /\ sessions' = [sessions EXCEPT ![s] =
        IF ~Exists(id)
          THEN Done(Reply(404, "Booking not found", {}))
        ELSE IF bookings[id].status # "CONFIRMED"
          THEN Done(Reply(400, "Booking must be confirmed before check-in", {}))
        ELSE [pc |-> "assign", id |-> id, data |-> data, booking |-> bookings[id]]]
  /\ UNCHANGED <<bookings, rooms, users, tasks, today, response>>

\* "Assign room if not already assigned", on the booking the session loaded
CheckInAssign(s) ==
  /\ sessions[s].pc = "assign"
  /\ LET bk == sessions[s].booking
         data == sessions[s].data
     IN  IF bk.room_id = NULL /\ data = NoBody
           THEN sessions' = [sessions EXCEPT ![s] = Done(Reply(500, "AttributeError", {}))]
         ELSE IF AssignedRooms(bk, data) = {}
           THEN sessions' = [sessions EXCEPT ![s] =
                               Done(Reply(400, "No clean rooms available", {}))]
         ELSE \E room_id \in AssignedRooms(bk, data) :
                sessions' = [sessions EXCEPT ![s] =
                   [pc |-> "update", id |-> sessions[s].id, room_id |-> room_id,
                    clean |-> CleanRooms(bk)]]
  /\ UNCHANGED <<bookings, rooms, users, tasks, today, response>>

\* "Update booking", "Update room status", db.session.commit()
CheckInUpdate(s) ==
  /\ sessions[s].pc = "update"
  /\ IF sessions[s].room_id \notin RoomIds
       THEN /\ sessions' = [sessions EXCEPT ![s] = Done(Reply(500, "no such room", {}))]
            /\ UNCHANGED <<bookings, rooms>>
       ELSE /\ CheckInCommit(sessions[s].id, sessions[s].room_id)
            /\ sessions' = [sessions EXCEPT ![s] =
                  [pc |-> "done", reply |-> Reply(200, "Check-in successful", {}),
                   id |-> sessions[s].id, clean |-> sessions[s].clean]]
  /\ UNCHANGED <<users, tasks, today, response>>

\* check-in requests that name no room
AutoCheckInBodies == {NoBody, [room_id |-> NULL]}

\* bookings are created and confirmed by requests that overlap no other;
\* check-ins overlap each other
ConcNext ==
  \/ \E data \in LifecycleRequests(MaxContending) :
        Len(bookings) < MaxContending /\ CreateBooking(data)
  \/ \E id \in BookingIds(MaxContending) : ConfirmBooking(id)
  \/ \E s \in Sessions, id \in BookingIds(MaxContending), data \in AutoCheckInBodies :
        CheckInLoad(s, id, data)
  \/ \E s \in Sessions : CheckInAssign(s)
  \/ \E s \in Sessions : CheckInUpdate(s)

ConcSpec == Init /\ [][ConcNext]_vars

\* ------------------------------------------------------------- cancel beside check-in
\* booking = Booking.query.get(booking_id) and the two tests of cancel_booking
CancelLoad(s, id, data) ==
  /\ sessions[s].pc \in {"idle", "done"}
  /\ sessions' = [sessions EXCEPT ![s] =
        IF ~Exists(id)
          THEN Done(Reply(404, "Booking not found", {}))
        ELSE IF bookings[id].status = "CANCELLED"
          THEN Done(Reply(400, "Booking already cancelled", {}))
        ELSE [pc |-> "cancel", id |-> id, data |-> data, booking |-> bookings[id]]]
  /\ UNCHANGED <<bookings, rooms, users, tasks, today, response>>

\* the charge, the four assignments and db.session.commit(): an UPDATE of the
\* four columns, computed from the booking as the session loaded it
CancelUpdate(s) ==
  /\ sessions[s].pc = "cancel"
  /\ IF sessions[s].data = NoBody
       THEN /\ sessions' = [sessions EXCEPT ![s] = Done(Reply(500, "AttributeError", {}))]
            /\ UNCHANGED bookings
       ELSE LET bk == sessions[s].booking
                charge == calculate_cancellation_charge(bk)
                refund == bk.total_amount - charge
            IN  /\ bookings' = [bookings EXCEPT
                      ![sessions[s].id].status = "CANCELLED",
                      ![sessions[s].id].cancelled_at = today,
                      ![sessions[s].id].cancellation_reason = sessions[s].data.reason,
                      ![sessions[s].id].refund_amount = Numeric2(refund)]
                /\ sessions' = [sessions EXCEPT ![s] =
                      [pc |-> "done",
                       reply |-> Reply(200, "Booking cancelled",
                          {[cancellation_charge |-> charge, refund_amount |-> refund]}),
                       id |-> sessions[s].id, booking |-> bk]]
  /\ UNCHANGED <<rooms, users, tasks, today, response>>

\* a booking is created and confirmed once by requests that overlap no other;
\* its cancellation and its check-in overlap
RaceNext ==
  \/ \E data \in LifecycleRequests(MaxBookings) :
        Len(bookings) < MaxBookings /\ CreateBooking(data)
  \/ \E id \in BookingIds(MaxBookings) :
        Exists(id) /\ bookings[id].status = "PENDING" /\ ConfirmBooking(id)
  \/ \E s \in Sessions, id \in BookingIds(MaxBookings), data \in AutoCheckInBodies :
        CheckInLoad(s, id, data)
  \/ \E s \in Sessions : CheckInAssign(s)
  \/ \E s \in Sessions : CheckInUpdate(s)
  \/ \E s \in Sessions, id \in BookingIds(MaxBookings), data \in CancelBodies :
        CancelLoad(s, id, data)
  \/ \E s \in Sessions : CancelUpdate(s)

RaceSpec == Init /\ [][RaceNext]_vars

\* ============================================================= properties
Stored == 1..Len(bookings)

\* the columns a cancellation writes
Cancellation(bk) ==
  <<bk.status, bk.cancelled_at, bk.cancellation_reason, bk.refund_amount>>

\* C1: no room is the assigned room of two different bookings that are both
\* CHECKED_IN, whatever sequence of create, confirm, check-in (with or without
\* a requested room id), check-out and cancel calls was served.
C1_NoRoomSharedByCheckedIn ==
  \A i \in Stored, j \in Stored :
     (i # j /\ bookings[i].status = "CHECKED_IN" /\ bookings[j].status = "CHECKED_IN")
        => bookings[i].room_id # bookings[j].room_id

\* the active bookings of a type in a hotel whose stay [check_in, check_out) covers a night
ActiveOn(hotel_id, t, night) ==
  {i \in Stored :
     /\ bookings[i].hotel_id = hotel_id
     /\ bookings[i].room_type_id = t
     /\ bookings[i].status \in Active
     /\ bookings[i].check_in_date <= night
     /\ night < bookings[i].check_out_date}

\* the eligible pool: rooms of the type in the hotel, not soft-deleted, not OUT_OF_ORDER
EligiblePool(hotel_id, t) ==
  {r \in RoomIds :
     /\ Room[r].hotel_id = hotel_id
     /\ Room[r].room_type_id = t
     /\ ~Room[r].is_deleted
     /\ rooms[r] # "OUT_OF_ORDER"}

\* C2: for every property, room type and night, the active bookings covering
\* the night never outnumber the eligible room pool of the type.
C2_ActiveWithinPool ==
  \A hotel_id \in HotelIds, t \in RoomTypeIds, night \in Dates :
     Cardinality(ActiveOn(hotel_id, t, night)) <= Cardinality(EligiblePool(hotel_id, t))

\* the sessions that served a check-in of a booking successfully
CheckedInBy == {s \in Sessions : sessions[s].pc = "done" /\ sessions[s].reply.code = 200}

\* C3: when two CheckIn calls for two different CONFIRMED bookings of the same
\* room type overlap and exactly one CLEAN_READY room of the type exists, they
\* do not both succeed: no interleaving leaves both bookings CHECKED_IN on that room.
C3_OneCheckInWinsLastRoom ==
  \A s1 \in CheckedInBy, s2 \in CheckedInBy :
     (/\ sessions[s1].id # sessions[s2].id
      /\ bookings[sessions[s1].id].room_type_id = bookings[sessions[s2].id].room_type_id
      /\ Cardinality(sessions[s1].clean) = 1
      /\ sessions[s1].clean = sessions[s2].clean)
        => ~(/\ bookings[sessions[s1].id].status = "CHECKED_IN"
             /\ bookings[sessions[s2].id].status = "CHECKED_IN"
             /\ bookings[sessions[s1].id].room_id = bookings[sessions[s2].id].room_id)

\* C4: ConfirmBooking on a booking that is not PENDING fails and leaves the
\* booking's status unchanged.
C4_ConfirmOnlyPending ==
  [][\A id \in Stored :
       (bookings[id].status # "PENDING" /\ ConfirmBooking(id))
          => (response'.code # 200 /\ bookings'[id].status = bookings[id].status)]_vars

\* C5: CancelBooking on a CHECKED_IN or CHECKED_OUT booking fails and leaves the
\* booking's status, cancellation timestamp, reason and refund amount unchanged.
C5_CancelOnlyPendingOrConfirmed ==
  [][\A id \in Stored, data \in CancelBodies :
       (/\ bookings[id].status \in {"CHECKED_IN", "CHECKED_OUT"}
        /\ CancelBooking(id, data))
          => (/\ response'.code # 200
              /\ Cancellation(bookings'[id]) = Cancellation(bookings[id]))]_vars

\* C6: CancelBooking on an already CANCELLED booking is answered with an error
\* and leaves the booking's status, cancelled_at, cancellation_reason and
\* refund_amount as the first cancellation set them.
C6_RecancelRejected ==
  [][\A id \in Stored, data \in CancelBodies :
       (bookings[id].status = "CANCELLED" /\ CancelBooking(id, data))
          => (/\ response'.code = 400
              /\ Cancellation(bookings'[id]) = Cancellation(bookings[id])
              /\ bookings' = bookings)]_vars

\* a cancelled booking has been cancelled again and the call was rejected
C6_Witness ==
  /\ response = Reply(400, "Booking already cancelled", {})
  /\ \E i \in Stored :
        /\ bookings[i].status = "CANCELLED"
        /\ bookings[i].cancelled_at # NULL
        /\ bookings[i].refund_amount # NoRefund

\* C7: CheckIn on a booking that is not CONFIRMED is rejected and changes
\* neither the booking (status, room_id, actual_check_in) nor any room's status.
C7_CheckInOnlyConfirmed ==
  [][\A id \in Stored, data \in CheckInBodies :
       (bookings[id].status # "CONFIRMED" /\ CheckIn(id, data))
          => (/\ response'.code = 400
              /\ bookings' = bookings
              /\ rooms' = rooms)]_vars

\* a check-in was rejected while no stored booking was CONFIRMED, one of them
\* being CHECKED_IN already
C7_Witness ==
  /\ response = Reply(400, "Booking must be confirmed before check-in", {})
  /\ \A i \in Stored : bookings[i].status # "CONFIRMED"
  /\ \E i \in Stored : bookings[i].status = "CHECKED_IN" /\ rooms[bookings[i].room_id] = "OCCUPIED"

\* C8: CheckOut on a booking that is not CHECKED_IN is rejected; no room status
\* changes and no housekeeping task is created.
C8_CheckOutOnlyCheckedIn ==
  [][\A id \in Stored :
       (bookings[id].status # "CHECKED_IN" /\ CheckOut(id))
          => (/\ response'.code = 400
              /\ bookings' = bookings
              /\ rooms' = rooms
              /\ tasks' = tasks)]_vars

\* a check-out was rejected while no stored booking was CHECKED_IN, one of them
\* being CONFIRMED and never checked in
C8_Witness ==
  /\ response = Reply(400, "Guest is not checked in", {})
  /\ \A i \in Stored : bookings[i].status # "CHECKED_IN"
  /\ \E i \in Stored : bookings[i].status = "CONFIRMED" /\ bookings[i].room_id = NULL

\* the search ranges search_availability accepts
SearchRanges ==
  {q \in [check_in : Dates, check_out : Dates] :
     q.check_in < q.check_out /\ q.check_in >= today}

\* the half-open intervals [a1, a2) and [b1, b2) overlap
Overlap(a1, a2, b1, b2) == a1 < b2 /\ b1 < a2

\* C9: the availability search counts a stored booking [b1, b2) as overlapping
\* the search range [a1, a2) exactly when a1 < b2 and b1 < a2; a booking that
\* ends on the search's check-in date or begins on its check-out date is not counted.
C9_FilterIsHalfOpenOverlap ==
  \A i \in Stored, q \in SearchRanges :
     OverlapFilter(bookings[i], q.check_in, q.check_out)
        <=> Overlap(q.check_in, q.check_out,
                    bookings[i].check_in_date, bookings[i].check_out_date)

\* the active bookings of a type in a hotel whose stay overlaps [check_in, check_out)
ActiveOverlapping(hotel_id, t, check_in, check_out) ==
  {i \in Stored :
     /\ bookings[i].hotel_id = hotel_id
     /\ bookings[i].room_type_id = t
     /\ bookings[i].status \in Active
     /\ Overlap(check_in, check_out, bookings[i].check_in_date, bookings[i].check_out_date)}

\* eligible pool minus overlapping active bookings
PoolMinusActive(hotel_id, t, check_in, check_out) ==
  Cardinality(EligiblePool(hotel_id, t))
    - Cardinality(ActiveOverlapping(hotel_id, t, check_in, check_out))

\* C10: for a valid range the search returns exactly the non-deleted room types
\* of the property with max_occupancy >= guestCount and positive availability,
\* each with availableRooms = eligible pool (VACANT_DIRTY and OCCUPIED rooms
\* included) minus the CONFIRMED or CHECKED_IN bookings overlapping the range.
C10_SearchResult ==
  \A hotel_id \in HotelIds, q \in SearchRanges, num_guests \in GuestCounts :
     AvailableTypes(hotel_id, q.check_in, q.check_out, num_guests) =
       {[room_type_id |-> t,
         available_rooms |-> PoolMinusActive(hotel_id, t, q.check_in, q.check_out),
         num_nights |-> q.check_out - q.check_in] :
          t \in {u \in RoomTypeIds :
                   /\ RoomType[u].hotel_id = hotel_id
                   /\ ~RoomType[u].is_deleted
                   /\ RoomType[u].max_occupancy >= num_guests
                   /\ PoolMinusActive(hotel_id, u, q.check_in, q.check_out) > 0}}

\* C11: whatever the store holds (more overlapping active bookings than
\* eligible rooms included) and whatever the query, every available_rooms value
\* a search reports is >= 0, and a room type whose computed availability is
\* <= 0 is not in the result.
C11_NoNegativeAvailability ==
  /\ response.msg = "search" => \A e \in response.body : e.available_rooms >= 0
  /\ \A hotel_id \in HotelIds, q \in SearchRanges, num_guests \in GuestCounts :
        \A e \in AvailableTypes(hotel_id, q.check_in, q.check_out, num_guests) :
           /\ e.available_rooms >= 0
           /\ Available(hotel_id, e.room_type_id, q.check_in, q.check_out) > 0

\* a search of hotel 1 for one guest and the night of day 1 was answered while
\* room type 2 had more active bookings for that night than rooms: the type
\* is left out of the answer
C11_Witness ==
  /\ response = Reply(200, "search", AvailableTypes(1, 1, 2, 1))
  /\ 2 \in SearchedTypes(1, 1)
  /\ Available(1, 2, 1, 2) < 0
  /\ \A e \in response.body : e.room_type_id # 2

\* C12: the cancellation charge depends only on days_until_checkin = check-in
\* date minus the current date: it is 0 when that is >= 2, exactly half of
\* total_amount when it is 0 or 1, and the full total_amount when it is < 0.
C12_ChargeByDaysUntilCheckIn ==
  [][\A id \in Stored, data \in CancelBodies :
       (response'.code = 200 /\ CancelBooking(id, data))
          => /\ response'.body # {}
             /\ \A e \in response'.body :
                   LET days == bookings[id].check_in_date - today
                   IN  /\ days >= 2 => e.cancellation_charge = 0
                       /\ days \in {0, 1} => 2 * e.cancellation_charge = bookings[id].total_amount
                       /\ days < 0 => e.cancellation_charge = bookings[id].total_amount]_vars

\* a booking was cancelled the day before its check-in date and half of its
\* amount was charged
C12_Witness ==
  /\ response.code = 200
  /\ response.msg = "Booking cancelled"
  /\ \E i \in Stored :
        /\ bookings[i].status = "CANCELLED"
        /\ bookings[i].check_in_date - bookings[i].cancelled_at = 1
        /\ \A e \in response.body : 2 * e.cancellation_charge = bookings[i].total_amount
        /\ response.body # {}

\* C13: for every successful CancelBooking the returned charge and refund
\* satisfy refund + charge = total_amount exactly and 0 <= refund <= total_amount,
\* and the refund_amount recorded on the cancelled booking equals total_amount
\* minus the charge.
C13_RefundComplementsCharge ==
  [][\A id \in Stored, data \in CancelBodies :
       (response'.code = 200 /\ CancelBooking(id, data))
          => \A e \in response'.body :
                /\ e.refund_amount + e.cancellation_charge = bookings[id].total_amount
                /\ 0 <= e.refund_amount
                /\ e.refund_amount <= bookings[id].total_amount
                /\ bookings'[id].refund_amount
                      = bookings[id].total_amount - e.cancellation_charge]_vars

\* C14: every stored booking has check_out_date > check_in_date in every
\* reachable state: a creation with check_out_date <= check_in_date is rejected
\* and persists nothing.
C14_StayHasANight ==
  \A i \in Stored : bookings[i].check_out_date > bookings[i].check_in_date

\* C15: CreateBooking with a check-in date earlier than today is rejected and
\* persists no booking and no guest record.
C15_PastCheckInRejected ==
  [][\A data \in SearchedRequests :
       (data.check_in_date < today /\ CreateBooking(data))
          => (/\ response'.code # 201
              /\ bookings' = bookings
              /\ users' = users)]_vars

\* C16: CreateBooking is accepted only when the room type's max_occupancy is >=
\* the guest count: in every reachable state each booking's num_guests is at
\* most the max_occupancy of its room type.
C16_PartyFitsRoomType ==
  \A i \in Stored :
     bookings[i].num_guests <= RoomType[bookings[i].room_type_id].max_occupancy

\* C17: a successful CreateBooking adds exactly one booking, PENDING and with
\* no room, and changes no other booking and no room; PENDING not being active,
\* the availability the search reports for any range is the same right before
\* and right after the creation.
C17_CreateAddsOnePending ==
  [][\A data \in DemandRequests :
       (response'.code = 201 /\ CreateBooking(data))
          => /\ Len(bookings') = Len(bookings) + 1
             /\ SubSeq(bookings', 1, Len(bookings)) = bookings
             /\ bookings'[Len(bookings')].status = "PENDING"
             /\ bookings'[Len(bookings')].room_id = NULL
             /\ rooms' = rooms
             /\ \A hotel_id \in HotelIds, check_in \in Dates, check_out \in Dates,
                   num_guests \in GuestCounts :
                   AvailableTypes(hotel_id, check_in, check_out, num_guests)'
                     = AvailableTypes(hotel_id, check_in, check_out, num_guests)]_vars

\* a booking has just been created while another one was checked in and its
\* room occupied
C17_Witness ==
  /\ response = Reply(201, "Booking created successfully", {})
  /\ Len(bookings) > 1
  /\ bookings[Len(bookings)].status = "PENDING"
  /\ bookings[Len(bookings)].room_id = NULL
  /\ \E i \in Stored :
        bookings[i].status = "CHECKED_IN" /\ rooms[bookings[i].room_id] = "OCCUPIED"

\* C18: in every reachable state a booking has a room (room_id not null) if and
\* only if it is CHECKED_IN or CHECKED_OUT, or CANCELLED after having been
\* checked in; no PENDING or CONFIRMED booking has a room.
C18_RoomIffCheckedIn ==
  \A i \in Stored :
     /\ bookings[i].status \in {"CHECKED_IN", "CHECKED_OUT"} => bookings[i].room_id # NULL
     /\ bookings[i].status \in {"PENDING", "CONFIRMED"} => bookings[i].room_id = NULL
     /\ bookings[i].status = "CANCELLED"
          => (bookings[i].room_id # NULL <=> bookings[i].actual_check_in # NULL)

\* the candidate rooms of a booking: of its hotel and room type, CLEAN_READY,
\* not soft-deleted
Candidates(bk) ==
  {r \in RoomIds :
     /\ Room[r].hotel_id = bk.hotel_id
     /\ Room[r].room_type_id = bk.room_type_id
     /\ rooms[r] = "CLEAN_READY"
     /\ ~Room[r].is_deleted}

\* C19: a CheckIn that names no room assigns the candidate room with the lowest
\* room number, and never a room outside the candidate set.
C19_LowestNumberedCandidate ==
  [][\A id \in Stored :
       (/\ bookings[id].room_id = NULL
        /\ response'.code = 200
        /\ CheckIn(id, [room_id |-> NULL]))
          => /\ bookings'[id].room_id \in Candidates(bookings[id])
             /\ \A r \in Candidates(bookings[id]) :
                   Room[bookings'[id].room_id].room_number <= Room[r].room_number]_vars

\* C20: auto-selection is deterministic: for a CONFIRMED booking without a room,
\* the store contents admit a single room as the outcome of a CheckIn that
\* names none.
C20_OneOutcomePerStore ==
  \A i \in Stored :
     (bookings[i].status = "CONFIRMED" /\ bookings[i].room_id = NULL)
        => Cardinality(AssignedRooms(bookings[i], [room_id |-> NULL])) <= 1

\* C21: a CheckIn that names no room, on a CONFIRMED booking, fails with "no
\* room available" when no CLEAN_READY, non-deleted room of the booking's type
\* and hotel exists; the booking stays CONFIRMED without a room and no room
\* status changes.
C21_NoRoomAvailable ==
  [][\A id \in Stored :
       (/\ bookings[id].status = "CONFIRMED"
        /\ Candidates(bookings[id]) = {}
        /\ CheckIn(id, [room_id |-> NULL]))
          => /\ response' = Reply(400, "No clean rooms available", {})
             /\ bookings'[id].status = "CONFIRMED"
             /\ bookings'[id].room_id = NULL
             /\ rooms' = rooms]_vars

\* C22: booking status and room status stay consistent: in every committed
\* state the room of each CHECKED_IN booking is OCCUPIED, and each OCCUPIED room
\* (no room is OCCUPIED to begin with) has a CHECKED_IN booking assigned to it.
C22_OccupiedIffCheckedIn ==
  /\ \A i \in Stored :
        bookings[i].status = "CHECKED_IN" => rooms[bookings[i].room_id] = "OCCUPIED"
  /\ \A r \in RoomIds :
        rooms[r] = "OCCUPIED"
           => \E i \in Stored : bookings[i].status = "CHECKED_IN" /\ bookings[i].room_id = r

\* C23: every successful CheckOut moves the booking to CHECKED_OUT, sets its
\* room's status to VACANT_DIRTY and creates exactly one housekeeping task for
\* that room (cleaning, normal priority, pending), in one commit.
C23_CheckOutFreesRoom ==
  [][\A id \in Stored :
       (response'.code = 200 /\ CheckOut(id))
          => /\ bookings'[id].status = "CHECKED_OUT"
             /\ bookings'[id].actual_check_out = today
             /\ bookings[id].room_id \in RoomIds
             /\ rooms' = [rooms EXCEPT ![bookings[id].room_id] = "VACANT_DIRTY"]
             /\ tasks' = Append(tasks, [room_id |-> bookings[id].room_id,
                                        task_type |-> "cleaning",
                                        priority |-> "normal",
                                        status |-> "pending"])]_vars

\* a guest has just checked out: the room is dirty and a task waits for it
C23_Witness ==
  /\ response = Reply(200, "Check-out successful", {})
  /\ \E i \in Stored :
        /\ bookings[i].status = "CHECKED_OUT"
        /\ bookings[i].actual_check_out = today
        /\ rooms[bookings[i].room_id] = "VACANT_DIRTY"
        /\ Len(tasks) = 1
        /\ tasks[1].room_id = bookings[i].room_id

\* C24: the search rejects a request whose check-in date is equal to or after
\* its check-out date, and one whose check-in date is before today, with an
\* error instead of a result list, and changes nothing in the store.
C24_SearchRejectsBadRange ==
  [][\A hotel_id \in HotelIds, check_in \in Dates, check_out \in Dates, num_guests \in GuestCounts :
       (/\ (check_in >= check_out \/ check_in < today)
        /\ SearchAvailability(hotel_id, check_in, check_out, num_guests))
          => /\ response'.code = 400
             /\ response'.msg # "search"
             /\ response'.body = {}
             /\ UNCHANGED <<bookings, rooms, users, tasks>>]_vars

\* a search starting before today was refused while a confirmed booking was stored
C24_Witness ==
  /\ response = Reply(400, "Check-in date cannot be in the past", {})
  /\ today > 1
  /\ \E i \in Stored : bookings[i].status = "CONFIRMED"

\* C25: confirming a PENDING booking reduces by exactly one the availability of
\* its room type for every search range that overlaps the booking's stay, and
\* leaves it unchanged for every range that does not overlap it.
C25_ConfirmTakesOneRoom ==
  [][\A id \in Stored :
       (bookings[id].status = "PENDING" /\ ConfirmBooking(id))
          => \A q \in SearchRanges :
                Available(bookings[id].hotel_id, bookings[id].room_type_id,
                          q.check_in, q.check_out)'
                  = Available(bookings[id].hotel_id, bookings[id].room_type_id,
                              q.check_in, q.check_out)
                    - (IF Overlap(q.check_in, q.check_out,
                                  bookings[id].check_in_date, bookings[id].check_out_date)
                         THEN 1 ELSE 0)]_vars

\* C26: ConfirmBooking, CancelBooking, CheckIn and CheckOut called with a
\* booking id that does not exist report "not found" and change no booking,
\* room or housekeeping task.
C26_UnknownBookingNotFound ==
  [][\A id \in BookingIds(MaxBookings) \ Stored :
       (\/ ConfirmBooking(id)
        \/ \E data \in CancelBodies : CancelBooking(id, data)
        \/ \E data \in CheckInBodies : CheckIn(id, data)
        \/ CheckOut(id))
          => /\ response' = Reply(404, "Booking not found", {})
             /\ UNCHANGED <<bookings, rooms, tasks>>]_vars

\* a call naming an unknown booking was answered "not found" while the stored
\* booking was checked in
C26_Witness ==
  /\ response = Reply(404, "Booking not found", {})
  /\ \E i \in Stored :
        bookings[i].status = "CHECKED_IN" /\ rooms[bookings[i].room_id] = "OCCUPIED"

\* C27: no two stored bookings ever share a booking number, and when the number
\* generated for a new booking collides with a stored one, CreateBooking
\* regenerates it and retries instead of failing: the booking is created.
C27_NumberCollisionRetried ==
  [][/\ \A i \in 1..Len(bookings'), j \in 1..Len(bookings') :
          i # j => bookings'[i].booking_number # bookings'[j].booking_number
     /\ \A data \in LifecycleRequests(MaxContending) :
          (NumberTaken(data.booking_number) /\ CreateBooking(data))
             => (response'.code = 201 /\ Len(bookings') = Len(bookings) + 1)]_vars

\* C28: CANCELLED and CHECKED_OUT are terminal: once a booking has one of these
\* statuses no later confirm, cancel, check-in or check-out call changes its
\* status, so it never becomes CONFIRMED or CHECKED_IN again.
C28_TerminalStatuses ==
  [][\A i \in Stored :
       bookings[i].status \in {"CANCELLED", "CHECKED_OUT"}
          => bookings'[i].status = bookings[i].status]_vars

\* C29: room status is changed only by CheckIn (to OCCUPIED) and CheckOut (to
\* VACANT_DIRTY): SearchAvailability, CreateBooking, ConfirmBooking and
\* CancelBooking leave every room's status unchanged, and SearchAvailability
\* leaves every booking unchanged as well.  The searches are those of hotel 1
\* from day 1 on for one guest.
C29_RoomsChangedByCheckInAndOutOnly ==
  [][/\ rooms' # rooms
          => /\ ~ \E check_out \in Dates : SearchAvailability(1, 1, check_out, 1)
             /\ ~ \E data \in DemandRequests : CreateBooking(data)
             /\ ~ \E id \in BookingIds(MaxContending) : ConfirmBooking(id)
             /\ ~ \E id \in BookingIds(MaxContending), data \in CancelBodies :
                     CancelBooking(id, data)
             /\ \A r \in RoomIds :
                   rooms'[r] # rooms[r]
                      => \/ /\ rooms'[r] = "OCCUPIED"
                            /\ \E id \in Stored, data \in CheckInBodies : CheckIn(id, data)
                         \/ /\ rooms'[r] = "VACANT_DIRTY"
                            /\ \E id \in Stored : CheckOut(id)
     /\ bookings' # bookings
          => ~ \E check_out \in Dates : SearchAvailability(1, 1, check_out, 1)]_vars

\* a booking was cancelled and the room it had been checked into is still OCCUPIED
C29_Witness ==
  /\ response.code = 200
  /\ response.msg = "Booking cancelled"
  /\ \E i \in Stored :
        /\ bookings[i].status = "CANCELLED"
        /\ bookings[i].cancelled_at # NULL
        /\ bookings[i].room_id # NULL
        /\ rooms[bookings[i].room_id] = "OCCUPIED"

\* C30: cancelling a CONFIRMED booking releases its hold: right after a
\* successful cancel the availability of its room type is one higher for every
\* range overlapping its stay, and the cancelled booking is never again
\* subtracted from availability.
C30_CancelReleasesHold ==
  [][\A id \in Stored :
       /\ (/\ bookings[id].status = "CONFIRMED"
           /\ response'.code = 200
           /\ \E data \in CancelBodies : CancelBooking(id, data))
             => \A q \in SearchRanges :
                   Overlap(q.check_in, q.check_out,
                           bookings[id].check_in_date, bookings[id].check_out_date)
                      => Available(bookings[id].hotel_id, bookings[id].room_type_id,
                                   q.check_in, q.check_out)'
                           = Available(bookings[id].hotel_id, bookings[id].room_type_id,
                                       q.check_in, q.check_out) + 1
       /\ bookings[id].status = "CANCELLED" => bookings'[id].status \notin Active]_vars

\* C31: in every reachable state the room assigned to a booking exists, belongs
\* to the booking's hotel and is of the booking's room type, also when it was
\* chosen by a room id requested at check-in.
C31_AssignedRoomMatchesBooking ==
  \A i \in Stored :
     bookings[i].room_id # NULL
        => /\ bookings[i].room_id \in RoomIds
           /\ Room[bookings[i].room_id].hotel_id = bookings[i].hotel_id
           /\ Room[bookings[i].room_id].room_type_id = bookings[i].room_type_id

\* C32: a CheckIn that fails after it has started writing (a requested room id
\* that matches no room, for one) is rolled back completely: the booking is
\* still CONFIRMED with no room and no actual_check_in, and no room status has
\* changed.
C32_FailedCheckInRolledBack ==
  [][\A id \in Stored, data \in CheckInBodies :
       (/\ bookings[id].status = "CONFIRMED"
        /\ response'.code = 500
        /\ CheckIn(id, data))
          => /\ bookings' = bookings
             /\ bookings'[id].status = "CONFIRMED"
             /\ bookings'[id].room_id = NULL
             /\ bookings'[id].actual_check_in = NULL
             /\ rooms' = rooms]_vars

\* a check-in naming a room that does not exist has failed and the booking is
\* as it was before
C32_Witness ==
  /\ response = Reply(500, "no such room", {})
  /\ \E i \in Stored :
        /\ bookings[i].status = "CONFIRMED"
        /\ bookings[i].room_id = NULL
        /\ bookings[i].actual_check_in = NULL
  /\ \A r \in RoomIds : rooms[r] # "OCCUPIED"

\* the sessions that checked a booking in, having read it CONFIRMED
CheckInsDone ==
  {s \in Sessions : sessions[s].pc = "done"
                      /\ sessions[s].reply.msg = "Check-in successful"}

\* the sessions that cancelled a booking they had read as CONFIRMED
ConfirmedCancelsDone ==
  {s \in Sessions : /\ sessions[s].pc = "done"
                    /\ sessions[s].reply.msg = "Booking cancelled"
                    /\ sessions[s].booking.status = "CONFIRMED"}

\* C33: when CancelBooking and CheckIn run concurrently on the same CONFIRMED
\* booking, each reading it before the other commits, exactly one takes effect:
\* no interleaving ends with a CANCELLED booking whose room that check-in set
\* OCCUPIED, nor with a CHECKED_IN booking carrying a cancellation timestamp
\* and a refund amount.
C33_CancelOrCheckInNotBoth ==
  \A s1 \in CheckInsDone, s2 \in ConfirmedCancelsDone :
     sessions[s1].id = sessions[s2].id
        => LET bk == bookings[sessions[s1].id]
           IN  /\ ~ (/\ bk.status = "CANCELLED"
                     /\ bk.room_id # NULL
                     /\ rooms[bk.room_id] = "OCCUPIED")
               /\ ~ (/\ bk.status = "CHECKED_IN"
                     /\ bk.cancelled_at # NULL
                     /\ bk.refund_amount # NoRefund)

====
